---- MODULE Spec2Model ----
(***************************************************************************)
(* Model of gch4i/sector_code/5A1_msw_landfills.py: the allocation of      *)
(* state/year inventory emissions to facilities (STEP 4), the sum_check    *)
(* QA table, the per-year rasterization and flux conversion (STEP 5) and   *)
(* the per-year raster-sum QA (STEP 6).                                    *)
(*                                                                         *)
(* Floats are modelled as exact rationals <<n, d>> with d >= 0:            *)
(* d > 0 is the number n/d, <<0, 0>> is NaN (0/0) and <<n, 0>> with        *)
(* n # 0 is an infinity.                                                   *)
(***************************************************************************)
EXTENDS Integers, Sequences, FiniteSets, TLC

\* ------------------------------------------------------------------ bounds
MaxWeight == 2
MaxQuantity == 10
NumCells == 2

\* numpy.isclose defaults: rtol = 1e-05 = 1/RtolInv, atol = 1e-08 = 1/AtolInv
RtolInv == 100000
AtolInv == 100000000

States == {"CA", "WY"}
Years == {2020, 2021}
FacOrder == <<"f1", "f2">>
FacilityIds == {FacOrder[i] : i \in DOMAIN FacOrder}

GroupKeys == States \X Years
Weights == 0..MaxWeight
Quantities == {0, MaxQuantity}
Cells == 1..NumCells

\* ------------------------------------------------------- float arithmetic
Abs(x) == IF x < 0 THEN -x ELSE x

RECURSIVE GCD(_, _)
GCD(a, b) == IF b = 0 THEN a ELSE GCD(b, a % b)

Sign(x) == IF x > 0 THEN 1 ELSE IF x < 0 THEN -1 ELSE 0

\* canonical form: lowest terms; NaN is <<0,0>>, infinities <<1,0>>, <<-1,0>>
Norm(r) ==
  IF r[2] = 0 THEN <<Sign(r[1]), 0>>
  ELSE LET g == GCD(Abs(r[1]), r[2]) IN <<r[1] \div g, r[2] \div g>>

NaN == <<0, 0>>
Zero == <<0, 1>>
Num(k) == <<k, 1>>
IsNaN(r) == r = NaN

FAdd(a, b) ==
  IF IsNaN(a) \/ IsNaN(b) THEN NaN
  ELSE IF a[2] = 0 /\ b[2] = 0 THEN (IF a[1] = b[1] THEN a ELSE NaN)
  ELSE IF a[2] = 0 THEN a
  ELSE IF b[2] = 0 THEN b
  ELSE Norm(<<a[1] * b[2] + b[1] * a[2], a[2] * b[2]>>)

FMul(a, b) ==
  IF IsNaN(a) \/ IsNaN(b) THEN NaN
  ELSE Norm(<<a[1] * b[1], a[2] * b[2]>>)

\* IEEE division: 0/0 is NaN, x/0 is an infinity
FDiv(a, b) ==
  IF IsNaN(a) \/ IsNaN(b) THEN NaN
  ELSE IF b[1] = 0 /\ b[2] # 0 THEN <<Sign(a[1]), 0>>
  ELSE IF b[2] = 0 THEN (IF a[2] = 0 THEN NaN ELSE Zero)
  ELSE Norm(<<a[1] * b[2] * Sign(b[1]), a[2] * Abs(b[1])>>)

\* pandas fillna(0)
FillNa0(a) == IF IsNaN(a) THEN Zero ELSE a

\* numpy.isclose(a, b): |a - b| <= atol + rtol * |b|, False when either is NaN
IsClose(a, b) ==
  IF IsNaN(a) \/ IsNaN(b) THEN FALSE
  ELSE IF a[2] = 0 \/ b[2] = 0 THEN a = b
  ELSE LET d == Abs(a[1] * b[2] - b[1] * a[2])
           D == a[2] * b[2]
       IN d <= (D + Abs(b[1]) * a[2] * (AtolInv \div RtolInv)) \div AtolInv

\* pandas Series.sum() over the rows ids of a column col (skipna=True)
RECURSIVE SeriesSum(_, _)
SeriesSum(col, ids) ==
  IF ids = {} THEN Zero
  ELSE LET i == CHOOSE j \in ids : TRUE
           rest == SeriesSum(col, ids \ {i})
       IN IF IsNaN(col[i]) THEN rest ELSE FAdd(col[i], rest)

\* --------------------------------------------------------------- geometry
\* A facility geometry is a point: valid with the index of the grid cell the
\* transform maps it to (0: outside the grid extent), or missing/invalid.
Point(c) == [valid |-> TRUE, cell |-> c]
MissingGeometry == [valid |-> FALSE, cell |-> 0]
Geometries == {Point(c) : c \in 0..NumCells} \cup {MissingGeometry}

\* ------------------------------------------------------------------ state
VARIABLES
  inventory,                 \* EPA_msw_landfills_emissions: (state, year) -> ch4_kt
  facilities,                \* msw_landfills_facilities_gdf: facility row -> columns
  allocated,                 \* column allocated_ch4_kt of the facilities table
  sum_check,                 \* the sum_check QA table, keyed by (state, year)
  qaqc_states,               \* the three state lists printed after sum_check
  year_days,                 \* year -> year_days computed in the STEP 5 loop
  ch4_kt_result_rasters,     \* year -> mass raster (cell -> value)
  ch4_flux_result_rasters,   \* year -> flux raster (cell -> value)
  qa,                        \* year -> the three lines printed by the STEP 6 loop
  err,                       \* the exception that ended the script, or "none"
  pc                         \* the next step of the script

vars == <<inventory, facilities, allocated, sum_check, qaqc_states, year_days,
          ch4_kt_result_rasters, ch4_flux_result_rasters, qa, err, pc>>

\* the inventory is a wide state x year table melted long: a state that is
\* present has one row per year, missing values filled with 0
Inventories ==
  UNION {[S \X Years -> {Num(q) : q \in Quantities}] : S \in SUBSET States}

FacilityRows ==
  [state : States, year : Years, ch4_kt : {Num(w) : w \in Weights},
   geometry : Geometries]

FacilityTables == UNION {[F -> FacilityRows] : F \in SUBSET FacilityIds}

Empty == [x \in {} |-> Zero]

Init ==
  /\ inventory \in Inventories
  /\ facilities \in FacilityTables
  /\ allocated = Empty
  /\ sum_check = Empty
  /\ qaqc_states = Empty
  /\ year_days = Empty
  /\ ch4_kt_result_rasters = Empty
  /\ ch4_flux_result_rasters = Empty
  /\ qa = Empty
  /\ err = "none"
  /\ pc = "step4"

\* ------------------------------------------------- STEP 4: the allocation
Key(i) == <<facilities[i].state, facilities[i].year>>

\* the groups of facilities.groupby(["state", "year"])
FacGroups == {Key(i) : i \in DOMAIN facilities}
GroupIds(g) == {i \in DOMAIN facilities : Key(i) = g}

ch4_kt_col == [i \in DOMAIN facilities |-> facilities[i].ch4_kt]

\* inventory_df[(state == s) & (year == y)]["ch4_kt"].iat[0] raises IndexError
\* when the selection is empty
IatRaises(g) == g \notin DOMAIN inventory

\* mutant: the share is taken of the number of facilities, not of their sum
AllocationByCount(ids, g) ==
  LET emi_sum == inventory[g]
  IN [i \in ids |->
        FillNa0(FMul(FDiv(ch4_kt_col[i], Num(Cardinality(ids))), emi_sum))]

\* mutant: the NaN of 0/0 is not filled
AllocationNoFillna(ids, g) ==
  LET emi_sum == inventory[g]
      total == SeriesSum(ch4_kt_col, ids)
  IN [i \in ids |-> FMul(FDiv(ch4_kt_col[i], total), emi_sum)]

\* mutant: a group whose weights sum to 0 is split in equal shares
AllocationEqualOnZero(ids, g) ==
  LET emi_sum == inventory[g]
      total == SeriesSum(ch4_kt_col, ids)
  IN [i \in ids |->
        IF total = Zero THEN FDiv(emi_sum, Num(Cardinality(ids)))
        ELSE FillNa0(FMul(FDiv(ch4_kt_col[i], total), emi_sum))]

\* one group's fac_emissions (the rows ids, named g): the allocated series
state_year_allocation_emissions(ids, g) ==
  LET emi_sum == inventory[g]
      total == SeriesSum(ch4_kt_col, ids)
  IN [i \in ids |-> FillNa0(FMul(FDiv(ch4_kt_col[i], total), emi_sum))]

\* groupby(["state", "year"])["ch4_kt"].transform(...): every group is
\* allocated and the column is assigned
Allocate ==
  /\ pc = "step4"
  /\ \A g \in FacGroups : ~IatRaises(g)
  /\ allocated' = [i \in DOMAIN facilities |->
                     state_year_allocation_emissions(GroupIds(Key(i)), Key(i))[i]]
  /\ pc' = "sum_check"
  /\ UNCHANGED <<inventory, facilities, sum_check, qaqc_states, year_days,
                 ch4_kt_result_rasters, ch4_flux_result_rasters, qa, err>>

\* a group without an inventory row: .iat[0] raises, the column is never
\* assigned and the script ends
AllocateRaises ==
  /\ pc = "step4"
  /\ \E g \in FacGroups : IatRaises(g)
  /\ err' = "IndexError"
  /\ pc' = "raised"
  /\ UNCHANGED <<inventory, facilities, allocated, sum_check, qaqc_states,
                 year_days, ch4_kt_result_rasters, ch4_flux_result_rasters, qa>>

\* ------------------------------------------------------ QA/QC: sum_check
\* groupby(["state", "year"])["allocated_ch4_kt"].sum()
GroupedSum == [g \in FacGroups |-> SeriesSum(allocated, GroupIds(g))]

SumCheckRow(a, e) == [allocated_ch4_kt |-> a, ch4_kt |-> e, check_diff |-> IsClose(a, e)]

\* mutant: how="left" keeps only the groups that have facilities
MergeLeft(left, right) ==
  [g \in DOMAIN left |->
     SumCheckRow(left[g], IF g \in DOMAIN right THEN right[g] ELSE NaN)]

\* mutant: how="inner" keeps only the groups present on both sides
MergeInner(left, right) ==
  [g \in DOMAIN left \cap DOMAIN right |-> SumCheckRow(left[g], right[g])]

\* .merge(inventory, on=["state", "year"], how="outer").assign(check_diff=...)
MergeOuter(left, right) ==
  [g \in DOMAIN left \cup DOMAIN right |->
     SumCheckRow(IF g \in DOMAIN left THEN left[g] ELSE NaN,
                 IF g \in DOMAIN right THEN right[g] ELSE NaN)]

\* the rows displayed: sum_check[~sum_check["check_diff"]]
Flagged(table) == {g \in DOMAIN table : ~table[g].check_diff}

InventoryStates == {g[1] : g \in DOMAIN inventory}
FacilityStates == {facilities[i].state : i \in DOMAIN facilities}

SumCheck ==
  /\ pc = "sum_check"
  /\ sum_check' = MergeOuter(GroupedSum, inventory)
  /\ qaqc_states' =
       [no_facilities |-> InventoryStates \ FacilityStates,
        not_in_inventory |-> FacilityStates \ InventoryStates,
        unaccounted |-> {g[1] : g \in Flagged(sum_check')}]
  /\ pc' = IF DOMAIN facilities = {} THEN "done" ELSE "step5"
  /\ UNCHANGED <<inventory, facilities, allocated, year_days,
                 ch4_kt_result_rasters, ch4_flux_result_rasters, qa, err>>

\* ------------------------------------------- STEP 5: rasterize and flux
FacYears == {facilities[i].year : i \in DOMAIN facilities}
YearIds(y) == {i \in DOMAIN facilities : facilities[i].year = y}

\* the rows ids in table order
RowSeq(ids) == SelectSeq(FacOrder, LAMBDA f : f \in ids)

\* [(shape, value) for shape, value in data[["geometry", "allocated_ch4_kt"]].values]
Shapes(rows) ==
  [k \in DOMAIN rows |->
     [shape |-> facilities[rows[k]].geometry, value |-> allocated[rows[k]]]]

\* calendar.isleap
isleap(year) == year % 4 = 0 /\ (year % 100 # 0 \/ year % 400 = 0)

\* calendar.mdays, January to December
mdays == <<31, 28, 31, 30, 31, 30, 31, 31, 30, 31, 30, 31>>

\* mutant: February always has 28 days
MonthLengthNoLeap(year, month) == mdays[month]

\* calendar.monthrange(year, month)[1]
MonthLength(year, month) ==
  mdays[month] + (IF month = 2 /\ isleap(year) THEN 1 ELSE 0)

RECURSIVE SumTo(_, _)
SumTo(f, n) == IF n = 0 THEN 0 ELSE f[n] + SumTo(f, n - 1)

\* np.sum([calendar.monthrange(year, x)[1] for x in range(1, 13)])
YearDays(year) ==
  LET month_days == [x \in 1..12 |-> MonthLength(year, x)]
  IN SumTo(month_days, 12)

\* mutant: MergeAlg.replace, the last shape burnt into a cell wins
MergeReplace(old, value) == value

\* mutant: a cell that already holds a value keeps it
MergeKeepFirst(old, value) == IF old = Zero THEN value ELSE old

\* MergeAlg.add
MergeAdd(old, value) == FAdd(old, value)

\* whether rasterize burns the shape, and into which cell: a missing or invalid
\* geometry is skipped (with the warning the script filters), a point outside
\* the extent touches no cell
Burns(shape) == shape.valid /\ shape.cell \in Cells

BurnCell(shape) == shape.cell

\* rasterize(shapes, out_shape=ARR_SHAPE, fill=0, merge_alg=MergeAlg.add):
\* the shapes are burnt one after the other into the array out
RECURSIVE BurnAll(_, _)
BurnAll(out, shapes) ==
  IF shapes = <<>> THEN out
  ELSE LET s == Head(shapes)
           next == IF Burns(s.shape)
                   THEN [out EXCEPT ![BurnCell(s.shape)] = MergeAdd(@, s.value)]
                   ELSE out
       IN BurnAll(next, Tail(shapes))

rasterize(shapes) == BurnAll([c \in Cells |-> Zero], shapes)

\* load_area_matrix(): the area of each grid cell
area_matrix == [c \in Cells |-> Num(c + 1)]

\* calc_conversion_factor(year_days, area_matrix): per cell, 1 / (area * days)
calc_conversion_factor(days, area) ==
  [c \in Cells |-> FDiv(Num(1), FMul(area[c], Num(days)))]

MinOf(S) == CHOOSE x \in S : \A y \in S : x <= y

RemainingRaster == FacYears \ DOMAIN ch4_kt_result_rasters

\* one iteration of: for year, data in facilities.groupby("year")
RasterizeYear ==
  /\ pc = "step5"
  /\ RemainingRaster # {}
  /\ LET year == MinOf(RemainingRaster)
         days == YearDays(year)
         ch4_kt_raster == rasterize(Shapes(RowSeq(YearIds(year))))
         conversion_factor_annual == calc_conversion_factor(days, area_matrix)
         ch4_flux_raster ==
           [c \in Cells |-> FMul(ch4_kt_raster[c], conversion_factor_annual[c])]
     IN /\ year_days' = [y \in DOMAIN year_days \cup {year} |->
                           IF y = year THEN days ELSE year_days[y]]
        /\ ch4_kt_result_rasters' =
             [y \in DOMAIN ch4_kt_result_rasters \cup {year} |->
                IF y = year THEN ch4_kt_raster ELSE ch4_kt_result_rasters[y]]
        /\ ch4_flux_result_rasters' =
             [y \in DOMAIN ch4_flux_result_rasters \cup {year} |->
                IF y = year THEN ch4_flux_raster ELSE ch4_flux_result_rasters[y]]
        /\ pc' = IF RemainingRaster = {year} THEN "step6" ELSE "step5"
  /\ UNCHANGED <<inventory, facilities, allocated, sum_check, qaqc_states, qa, err>>

\* --------------------------------------------- STEP 6: the raster-sum QA
\* numpy ndarray.sum(): NaN propagates
RECURSIVE ArraySum(_, _)
ArraySum(arr, cells) ==
  IF cells = {} THEN Zero
  ELSE LET c == CHOOSE x \in cells : TRUE
       IN FAdd(arr[c], ArraySum(arr, cells \ {c}))

FNeg(a) == <<-a[1], a[2]>>
FSub(a, b) == FAdd(a, FNeg(b))

RemainingQA == DOMAIN ch4_kt_result_rasters \ DOMAIN qa

\* one iteration of: for year, raster in ch4_kt_result_rasters.items()
QAYear ==
  /\ pc = "step6"
  /\ RemainingQA # {}
  /\ LET year == MinOf(RemainingQA)
         raster_sum == ArraySum(ch4_kt_result_rasters[year], Cells)
         fac_sum == SeriesSum(allocated, YearIds(year))
         emi_sum == SeriesSum(inventory, {g \in DOMAIN inventory : g[2] = year})
         ch4_kt == [g \in DOMAIN sum_check |-> sum_check[g].ch4_kt]
         missing_sum ==
           SeriesSum(ch4_kt, {g \in Flagged(sum_check) : g[2] = year})
     IN /\ qa' = [y \in DOMAIN qa \cup {year} |->
                    IF y = year
                    THEN [raster_eq_fac |-> IsClose(raster_sum, fac_sum),
                          raster_eq_emi |-> IsClose(raster_sum, emi_sum),
                          missing_eq |->
                            IsClose(FSub(emi_sum, raster_sum), missing_sum)]
                    ELSE qa[y]]
        /\ pc' = IF RemainingQA = {year} THEN "done" ELSE "step6"
  /\ UNCHANGED <<inventory, facilities, allocated, sum_check, qaqc_states,
                 year_days, ch4_kt_result_rasters, ch4_flux_result_rasters, err>>

Next ==
  \/ Allocate
  \/ AllocateRaises
  \/ SumCheck
  \/ RasterizeYear
  \/ QAYear

Spec == Init /\ [][Next]_vars

\* ------------------------------------------------------------ the claims
AllocationDone == pc \in {"sum_check", "step5", "step6", "done"}
SumCheckDone == pc \in {"step5", "step6", "done"}
HasAggregate(g) == g \in DOMAIN inventory
Positive(r) == r[1] > 0 /\ r[2] > 0
WeightSum(g) == SeriesSum(ch4_kt_col, GroupIds(g))
AllocatedSum(g) == SeriesSum(allocated, GroupIds(g))
AllZeroWeights(g) == \A i \in GroupIds(g) : facilities[i].ch4_kt = Zero

\* C1: for every (state, year) group that has a matching aggregate and whose
\* weights sum to more than 0, the allocated quantities of the group's
\* facilities sum to the aggregate quantity of the group.
C1_MassConservation ==
  AllocationDone =>
    \A g \in FacGroups :
      (HasAggregate(g) /\ Positive(WeightSum(g))) => AllocatedSum(g) = inventory[g]

C1_Witness ==
  /\ AllocationDone
  /\ \E g \in FacGroups :
       /\ Positive(inventory[g])
       /\ \E i, j \in GroupIds(g) :
            /\ Positive(facilities[i].ch4_kt)
            /\ Positive(facilities[j].ch4_kt)
            /\ facilities[i].ch4_kt # facilities[j].ch4_kt

\* C2 as stated: for every group of the inventory that has at least one
\* facility, whatever the weights, the allocated quantities sum to the
\* aggregate quantity.
C2_Original ==
  AllocationDone =>
    \A g \in FacGroups : HasAggregate(g) => AllocatedSum(g) = inventory[g]

\* C2 amended: for every group of the inventory that has at least one
\* facility, the allocated quantities sum to the aggregate quantity when the
\* weights sum to more than 0, and to 0 when the weights are all zero.
C2_ConservationOrZero ==
  AllocationDone =>
    \A g \in FacGroups :
      HasAggregate(g) =>
        AllocatedSum(g) = (IF Positive(WeightSum(g)) THEN inventory[g] ELSE Zero)

C2_Witness ==
  /\ AllocationDone
  /\ \E g \in FacGroups :
       /\ HasAggregate(g)
       /\ Positive(inventory[g])
       /\ Cardinality(GroupIds(g)) >= 2
       /\ AllZeroWeights(g)
       /\ AllocatedSum(g) = Zero

\* C3: for a group that has facilities and no matching aggregate, allocation
\* does not raise: it completes and every facility of the group has
\* allocated quantity 0.
C3_NoRaiseOnMissingAggregate ==
  \A g \in FacGroups :
    (~HasAggregate(g) /\ pc # "step4") =>
      /\ err = "none"
      /\ \A i \in GroupIds(g) : i \in DOMAIN allocated /\ allocated[i] = Zero

\* C4: for every group whose weights are all zero, allocation does not fail
\* with a division error and every facility of the group is allocated exactly
\* 0 (not NaN), whatever the aggregate quantity.
C4_ZeroWeightsAllocateZero ==
  /\ err # "ZeroDivisionError"
  /\ AllocationDone =>
       \A g \in FacGroups :
         AllZeroWeights(g) =>
           \A i \in GroupIds(g) : i \in DOMAIN allocated /\ allocated[i] = Zero

C4_Witness ==
  /\ AllocationDone
  /\ \E g \in FacGroups :
       AllZeroWeights(g) /\ Positive(inventory[g]) /\ err = "none"

\* C5: for every group that has an aggregate > 0 and no facilities, no
\* allocated record exists and sum_check flags the group as a mismatch whose
\* row carries the full aggregate quantity and no allocated sum.
C5_MissingSourcesFlagged ==
  SumCheckDone =>
    \A g \in DOMAIN inventory :
      (Positive(inventory[g]) /\ GroupIds(g) = {}) =>
        /\ \A i \in DOMAIN allocated : Key(i) # g
        /\ g \in Flagged(sum_check)
        /\ sum_check[g].ch4_kt = inventory[g]
        /\ IsNaN(sum_check[g].allocated_ch4_kt)

C5_Witness ==
  /\ SumCheckDone
  /\ \E g \in DOMAIN inventory :
       /\ Positive(inventory[g])
       /\ GroupIds(g) = {}
       /\ g \in Flagged(sum_check)
       /\ DOMAIN allocated # {}

\* the records of a year whose geometry falls in a cell
InCell(y, c) ==
  {i \in YearIds(y) : facilities[i].geometry.valid /\ facilities[i].geometry.cell = c}

\* C6: after a year is rasterized, every cell holds the sum of the allocated
\* quantities of the year's records whose geometry falls in the cell, and a
\* cell with no record holds 0.
C6_AdditiveMerge ==
  \A y \in DOMAIN ch4_kt_result_rasters :
    \A c \in Cells :
      ch4_kt_result_rasters[y][c] = SeriesSum(allocated, InCell(y, c))

C6_Witness ==
  \E y \in DOMAIN ch4_kt_result_rasters :
    \E c \in Cells :
      /\ Cardinality(InCell(y, c)) >= 2
      /\ \A i \in InCell(y, c) : Positive(allocated[i])
      /\ \E d \in Cells : InCell(y, d) = {}

\* the records of a year that rasterize leaves out
Excluded(y) ==
  {i \in YearIds(y) :
     ~facilities[i].geometry.valid \/ facilities[i].geometry.cell \notin Cells}

\* C7: records whose geometry is invalid or maps to no cell are excluded from
\* the raster sum, and the number of excluded records is reported for the year.
C7_ExcludedCountReported ==
  \A y \in DOMAIN qa :
    /\ ArraySum(ch4_kt_result_rasters[y], Cells)
         = SeriesSum(allocated, YearIds(y) \ Excluded(y))
    /\ Excluded(y) # {} =>
         /\ "excluded_count" \in DOMAIN qa[y]
         /\ qa[y].excluded_count = Cardinality(Excluded(y))

\* the orderings of a set of rows
Orderings(ids) ==
  {p \in [1..Cardinality(ids) -> ids] : \A a, b \in DOMAIN p : p[a] = p[b] => a = b}

C9_TrueYearLength ==
  /\ \A y \in DOMAIN year_days :
       year_days[y] =
         (IF y % 4 = 0 /\ (y % 100 # 0 \/ y % 400 = 0) THEN 366 ELSE 365)
  /\ ({2020, 2021} \subseteq DOMAIN ch4_flux_result_rasters) =>
       \A c \in Cells :
         ch4_kt_result_rasters[2020][c] = ch4_kt_result_rasters[2021][c] =>
           FMul(ch4_flux_result_rasters[2020][c], Num(366))
             = FMul(ch4_flux_result_rasters[2021][c], Num(365))

C9_Witness ==
  /\ {2020, 2021} \subseteq DOMAIN ch4_flux_result_rasters
  /\ \E c \in Cells :
       /\ Positive(ch4_kt_result_rasters[2020][c])
       /\ ch4_kt_result_rasters[2020][c] = ch4_kt_result_rasters[2021][c]
       /\ ch4_flux_result_rasters[2020][c] # ch4_flux_result_rasters[2021][c]

\* C10: sum_check reports a group as a mismatch only when it has an aggregate
\* > 0 and no facilities (MISSING_SOURCES) or facilities and no aggregate
\* (EXTRA_SOURCES); every other group, a group with aggregate 0 and no
\* facilities among them, is OK.
C10_Classification ==
  SumCheckDone =>
    \A g \in DOMAIN sum_check :
      LET missing_sources ==
            HasAggregate(g) /\ Positive(inventory[g]) /\ GroupIds(g) = {}
          extra_sources == GroupIds(g) # {} /\ ~HasAggregate(g)
      IN g \in Flagged(sum_check) <=> (missing_sources \/ extra_sources)

\* the aggregate quantities of the groups of a year that sum_check flags
FlaggedMass(y) ==
  SeriesSum([g \in DOMAIN sum_check |-> sum_check[g].ch4_kt],
            {g \in Flagged(sum_check) : g[2] = y})

\* the inventory total of a year
NationalTotal(y) == SeriesSum(inventory, {g \in DOMAIN inventory : g[2] = y})

\* C11: for every year of the STEP 6 loop whose facility geometries all map
\* into the grid (every facility group then has an aggregate), the national
\* total of the year minus the year's raster sum equals the aggregate mass of
\* the year's groups flagged by sum_check, the flagged groups are those with
\* no facilities or with all-zero weights, and the script prints True for
\* "do the states with no facilities equal the missing amount".
C11_YearReconciliation ==
  \A y \in DOMAIN qa :
    Excluded(y) = {} =>
      /\ \A g \in FacGroups : HasAggregate(g)
      /\ FSub(NationalTotal(y), ArraySum(ch4_kt_result_rasters[y], Cells))
           = FlaggedMass(y)
      /\ \A g \in Flagged(sum_check) : GroupIds(g) = {} \/ AllZeroWeights(g)
      /\ qa[y].missing_eq

C11_Witness ==
  \E y \in DOMAIN qa :
    /\ Excluded(y) = {}
    /\ qa[y].missing_eq
    /\ Positive(ArraySum(ch4_kt_result_rasters[y], Cells))
    /\ Positive(FlaggedMass(y))
    /\ \E g \in Flagged(sum_check) : g[2] = y /\ GroupIds(g) = {}

\* a year reconciles although one of its groups has all-zero weights
C11_ZeroWeightCase ==
  \E y \in DOMAIN qa :
    /\ Excluded(y) = {}
    /\ qa[y].missing_eq
    /\ \E g \in Flagged(sum_check) :
         g[2] = y /\ GroupIds(g) # {} /\ AllZeroWeights(g)

====
